---------------------------- MODULE Spec2Model ----------------------------
(***************************************************************************)
(* Model of src/main.py: analyze_whitespace, segment_pdf and the command   *)
(* line entry point.                                                       *)
(*                                                                         *)
(* Coordinates are integers counting quarter points (1 = 0.25), so that    *)
(* round(diff * 2) / 2 has the half-way cases where Python's round() goes  *)
(* to the even neighbour.  A rounded gap is kept as its number of halves.  *)
(* A path is the sequence of its components, "/" first when absolute.      *)
(* Text blocks are what page.get_text("blocks") hands back: they are drawn *)
(* when the page is read.                                                  *)
(***************************************************************************)
EXTENDS Integers, Sequences, FiniteSets, TLC

\* ----------------------------------------------------------------- bounds
MaxLines == 4
MaxSegments == 3
MaxPages == 2

\* ----------------------------------------------------------------- inputs
\* (y0, y1) of the text blocks a page may return
BBoxes == {<<0, 1>>, <<1, 1>>, <<1, 3>>, <<3, 3>>}
Texts == {" ", " a "}
BlockValues == {<<0, b[1], 0, b[2], t>> : b \in BBoxes, t \in Texts}

InputPath == <<"/", "in", "doc.pdf">>
OutDirArg == <<"/", "out">>
DefaultPrefix == <<"segment_">>
Cwd == <<"/", "in">>
None == <<>>
InsertX == 10

\* ---------------------------------------------------------------- helpers
Abs(x) == IF x < 0 THEN -x ELSE x

Elems(s) == {s[k] : k \in 1..Len(s)}

Last(s) == s[Len(s)]

\* str.strip() on the texts of the model
Strip(t) == IF t = " " THEN "" ELSE IF t = " a " THEN "a" ELSE t

IsAbsPath(p) == Len(p) > 0 /\ p[1] = "/"

AbsPath(p) == IF IsAbsPath(p) THEN p ELSE Cwd \o p

DirName(p) == IF Len(p) <= 1 THEN p ELSE SubSeq(p, 1, Len(p) - 1)

\* os.path.join(a, b) for a file b = [dir, name]: an absolute b discards a
PathJoin(a, b) == IF IsAbsPath(b.dir) THEN b ELSE [dir |-> a \o b.dir, name |-> b.name]

\* f"{output_prefix}{i+1}.pdf": the number and the extension continue the
\* last component of the prefix; the components before it are its directory
SegmentFileName(prefix, k) ==
    IF Len(prefix) = 0 THEN [dir |-> <<>>, name |-> <<"", k, ".pdf">>]
    ELSE [dir |-> SubSeq(prefix, 1, Len(prefix) - 1), name |-> <<Last(prefix), k, ".pdf">>]

\* round(x) for x = h / 2: half-way cases go to the even neighbour
PyRound(h) ==
    IF h % 2 = 0 THEN h \div 2
    ELSE IF (h \div 2) % 2 = 0 THEN h \div 2 ELSE (h \div 2) + 1

SliceAfterFirst(s, a, b) ==
    LET hi == IF b > Len(s) THEN Len(s) ELSE b
    IN  IF a + 1 >= hi THEN <<>> ELSE SubSeq(s, a + 2, hi)

\* a Python slice seq[a:b] with 0 <= a, 0 <= b
Slice(s, a, b) ==
    LET hi == IF b > Len(s) THEN Len(s) ELSE b
    IN  IF a >= hi THEN <<>> ELSE SubSeq(s, a + 1, hi)

SeqsUpTo(S, m) == UNION {[1..k -> S] : k \in 0..m}

\* ----------------------------------------------------- analyze_whitespace
KeepBlock(block) == block[5] # "" /\ Strip(block[5]) # ""

LineOf(block, pn) ==
    [top |-> block[2], bottom |-> block[4], text |-> Strip(block[5]), page_num |-> pn]

RECURSIVE PageLines(_, _)
PageLines(blocks, pn) ==
    IF blocks = <<>> THEN <<>>
    ELSE LET rest == PageLines(Tail(blocks), pn)
         IN  IF KeepBlock(Head(blocks)) THEN <<LineOf(Head(blocks), pn)>> \o rest ELSE rest

\* list.sort(key=top) is stable: x goes after every element whose key is <= its own
InsertByTop(s, x) ==
    LET k == Cardinality({j \in 1..Len(s) : s[j].top <= x.top})
    IN  SubSeq(s, 1, k) \o <<x>> \o SubSeq(s, k + 1, Len(s))

RECURSIVE SortByTop(_)
SortByTop(s) ==
    IF s = <<>> THEN <<>>
    ELSE InsertByTop(SortByTop(SubSeq(s, 1, Len(s) - 1)), Last(s))

WhitespaceDiffBare(lines) ==
    [j \in 1..(Len(lines) - 1) |-> <<lines[j + 1].top - lines[j].bottom, j - 1, j>>]

WhitespaceDiff(lines) ==
    [j \in 1..(Len(lines) - 1) |-> <<Abs(lines[j + 1].top - lines[j].bottom), j - 1, j>>]

\* ------------------------------------------------------------ segment_pdf
InsertByDiffDesc(s, x) ==
    LET k == Cardinality({j \in 1..Len(s) : s[j][1] >= x[1]})
    IN  SubSeq(s, 1, k) \o <<x>> \o SubSeq(s, k + 1, Len(s))

InsertByDiff(s, x) ==
    LET k == Cardinality({j \in 1..Len(s) : s[j][1] <= x[1]})
    IN  SubSeq(s, 1, k) \o <<x>> \o SubSeq(s, k + 1, Len(s))

RECURSIVE SortByDiff(_)
SortByDiff(s) ==
    IF s = <<>> THEN <<>>
    ELSE InsertByDiff(SortByDiff(SubSeq(s, 1, Len(s) - 1)), Last(s))

\* line 78: diff * 2 is diff / 2 points, since diff counts quarter points; the
\* result counts halves of a point
RoundedDiff(diff) == PyRound(diff)

\* the dict built by group_whitespace: key -> entries in insertion order
GroupWhitespace(ws) ==
    [key \in {RoundedDiff(ws[j][1]) : j \in 1..Len(ws)} |->
        SelectSeq(ws, LAMBDA e : RoundedDiff(e[1]) = key)]

\* sorted(whitespace_groups.items(), key=key)
RECURSIVE SortedItems(_)
SortedItems(groups) ==
    IF DOMAIN groups = {} THEN <<>>
    ELSE LET m == CHOOSE k \in DOMAIN groups : \A o \in DOMAIN groups : k <= o
             rest == [k \in (DOMAIN groups) \ {m} |-> groups[k]]
         IN  << <<m, groups[m]>> >> \o SortedItems(rest)

AlwaysAppend(start_idx, boundaries) == TRUE

\* line 105: start_idx not in segment_boundaries
NotABoundary(start_idx, boundaries) == start_idx \notin Elems(boundaries)

\* lines 139-142
PageSegmentLines(lines, start_idx, end_idx, pn) ==
    LET idx == Slice([j \in 1..Len(lines) |-> j - 1], start_idx, end_idx)
    IN  SelectSeq(idx, LAMBDA j : lines[j + 1].page_num = pn)

\* lines 146-150: one new page, one insert_text per selected line
NewPage(lines, sel) ==
    [k \in 1..Len(sel) |->
        [at |-> <<InsertX, lines[sel[k] + 1].top>>, text |-> lines[sel[k] + 1].text,
         line |-> sel[k]]]

RECURSIVE FillPages(_, _, _, _, _)
FillPages(lines, start_idx, end_idx, pn, np) ==
    IF pn >= np THEN <<>>
    ELSE LET sel == PageSegmentLines(lines, start_idx, end_idx, pn)
             rest == FillPages(lines, start_idx, end_idx, pn + 1, np)
         IN  IF sel # <<>> THEN <<NewPage(lines, sel)>> \o rest ELSE rest

AlwaysSave(pdf) == TRUE

\* line 153: len(output_pdf) > 0
HasContent(pdf) == Len(pdf) > 0


\* ------------------------------------------------------------------ state
VARIABLES
    pc,                 \* position in the program
    argv,               \* parsed command line, <<>> when segment_pdf is called directly
    num_pages,          \* len(doc) of the input file
    dirs,               \* directories that exist
    made_dirs,          \* directories os.makedirs created
    files,              \* saved files: [path, pdf]
    printed,            \* messages on stdout
    open_handles,       \* document handles not closed
    num_segments, output_prefix, output_dir,
    page_num, all_line_positions, whitespace_diff,
    whitespace_groups, sorted_groups, group_idx, item_idx,
    segment_boundaries, current_group_count, current_whitespace_group,
    i, output_pdf

vars == <<pc, argv, num_pages, dirs, made_dirs, files, printed, open_handles,
          num_segments, output_prefix, output_dir,
          page_num, all_line_positions, whitespace_diff,
          whitespace_groups, sorted_groups, group_idx, item_idx,
          segment_boundaries, current_group_count, current_whitespace_group,
          i, output_pdf>>

fsVars == <<dirs, made_dirs, files>>
argVars == <<argv, num_pages, num_segments, output_prefix, output_dir>>
awVars == <<page_num, all_line_positions, whitespace_diff>>
selVars == <<whitespace_groups, sorted_groups, group_idx, item_idx,
             segment_boundaries, current_group_count, current_whitespace_group>>
outVars == <<i, output_pdf>>

AwDoc == <<"analyze_whitespace.doc", 0>>
Doc == <<"segment_pdf.doc", 0>>
OutputPdf(k) == <<"segment_pdf.output_pdf", k>>

\* handles a live local variable is bound to
Referenced ==
    (IF pc \in {"aw_page", "aw_close"} THEN {AwDoc} ELSE {})
    \cup (IF pc \in {"check", "seg_create", "seg_fill", "seg_save", "doc_close"}
          THEN {Doc} ELSE {})
    \cup (IF pc \in {"seg_fill", "seg_save"} THEN {OutputPdf(i)} ELSE {})
    \cup (IF pc \in {"seg_create", "doc_close"} /\ i > 0 THEN {OutputPdf(i - 1)} ELSE {})

Init ==
    /\ pc = "start"
    /\ argv = <<>>
    /\ num_pages \in 1..MaxPages
    /\ dirs = {<<"/">>, <<"/", "in">>}
    /\ made_dirs = {}
    /\ files = {}
    /\ printed = <<>>
    /\ open_handles = {}
    /\ num_segments = 2
    /\ output_prefix = DefaultPrefix
    /\ output_dir = None
    /\ page_num = 0
    /\ all_line_positions = <<>>
    /\ whitespace_diff = <<>>
    /\ whitespace_groups = <<>>
    /\ sorted_groups = <<>>
    /\ group_idx = 0
    /\ item_idx = 0
    /\ segment_boundaries = <<>>
    /\ current_group_count = 0
    /\ current_whitespace_group = None
    /\ i = 0
    /\ output_pdf = <<>>

\* a direct call segment_pdf(pdf_path, n, output_dir=d)
SegmentPdfCall ==
    /\ pc = "start"
    /\ \E n \in 1..MaxSegments, d \in {None, OutDirArg} :
          /\ num_segments' = n
          /\ output_prefix' = DefaultPrefix
          /\ output_dir' = d
    /\ pc' = "makedirs"
    /\ UNCHANGED <<argv, num_pages, fsVars, printed, open_handles, awVars, selVars, outVars>>

\* lines 163-171: segment_pdf(args.input, args.segments, args.output_dir)
Main ==
    /\ pc = "start"
    /\ \E n \in 1..MaxSegments :
          /\ argv' = [input |-> InputPath, segments |-> n, output_dir |-> OutDirArg]
          /\ num_segments' = n
          /\ output_prefix' = OutDirArg
          /\ output_dir' = None
    /\ pc' = "makedirs"
    /\ UNCHANGED <<num_pages, fsVars, printed, open_handles, awVars, selVars, outVars>>

\* the directories os.makedirs(d) makes sure of: d and its parents
Ancestors(d) == {SubSeq(d, 1, k) : k \in 1..Len(d)}

\* lines 63-65
MakeDirs ==
    /\ pc = "makedirs"
    /\ LET d == IF output_dir = None THEN DirName(AbsPath(InputPath)) ELSE output_dir
       IN  /\ output_dir' = d
           /\ dirs' = dirs \cup Ancestors(d)
           /\ made_dirs' = made_dirs \cup (Ancestors(d) \ dirs)
    /\ pc' = "aw_open"
    /\ UNCHANGED <<argv, num_pages, num_segments, output_prefix, files, printed,
                   open_handles, awVars, selVars, outVars>>

\* lines 17-18
AwOpen ==
    /\ pc = "aw_open"
    /\ open_handles' = open_handles \cup {AwDoc}
    /\ all_line_positions' = <<>>
    /\ page_num' = 0
    /\ pc' = "aw_page"
    /\ UNCHANGED <<argVars, fsVars, printed, whitespace_diff, selVars, outVars>>

\* lines 20-39: one page of the loop
AwPage ==
    /\ pc = "aw_page"
    /\ page_num < num_pages
    /\ \E text_blocks \in SeqsUpTo(BlockValues, MaxLines - Len(all_line_positions)) :
          all_line_positions' =
              all_line_positions \o SortByTop(PageLines(text_blocks, page_num))
    /\ page_num' = page_num + 1
    /\ UNCHANGED <<pc, argVars, fsVars, printed, open_handles, whitespace_diff,
                   selVars, outVars>>

\* line 41
AwClose ==
    /\ pc = "aw_page"
    /\ page_num >= num_pages
    /\ open_handles' = open_handles \ {AwDoc}
    /\ pc' = "aw_diff"
    /\ UNCHANGED <<argVars, fsVars, printed, awVars, selVars, outVars>>

\* lines 43-50 and the return into line 68
AwDiff ==
    /\ pc = "aw_diff"
    /\ whitespace_diff' = WhitespaceDiff(all_line_positions)
    /\ pc' = "sort"
    /\ UNCHANGED <<argVars, fsVars, printed, open_handles, page_num,
                   all_line_positions, selVars, outVars>>

\* line 71
SortWhitespace ==
    /\ pc = "sort"
    /\ whitespace_diff' = SortByDiff(whitespace_diff)
    /\ pc' = "group"
    /\ UNCHANGED <<argVars, fsVars, printed, open_handles, page_num,
                   all_line_positions, selVars, outVars>>

\* lines 74-92
Group ==
    /\ pc = "group"
    /\ whitespace_groups' = GroupWhitespace(whitespace_diff)
    /\ sorted_groups' = SortedItems(GroupWhitespace(whitespace_diff))
    /\ segment_boundaries' = <<0>>
    /\ current_group_count' = 0
    /\ current_whitespace_group' = None
    /\ group_idx' = 1
    /\ item_idx' = 0
    /\ pc' = "group_head"
    /\ UNCHANGED <<argVars, fsVars, printed, open_handles, awVars, outVars>>

\* lines 94-101: the next group, or the end of the loop
GroupHead ==
    /\ pc = "group_head"
    /\ IF group_idx > Len(sorted_groups) \/ Len(segment_boundaries) >= num_segments
       THEN /\ pc' = "final"
            /\ UNCHANGED <<current_whitespace_group, item_idx>>
       ELSE /\ current_whitespace_group' =
                  IF current_whitespace_group = None
                  THEN <<sorted_groups[group_idx][1]>> ELSE current_whitespace_group
            /\ item_idx' = 1
            /\ pc' = "item"
    /\ UNCHANGED <<argVars, fsVars, printed, open_handles, awVars, whitespace_groups,
                   sorted_groups, group_idx, segment_boundaries, current_group_count,
                   outVars>>

\* lines 104-111: one entry of the group
GroupItem ==
    /\ pc = "item"
    /\ LET group_items == sorted_groups[group_idx][2]
       IN  IF item_idx > Len(group_items)
           THEN /\ group_idx' = group_idx + 1
                /\ pc' = "group_head"
                /\ UNCHANGED <<item_idx, segment_boundaries, current_group_count>>
           ELSE LET start_idx == group_items[item_idx][2]
                    end_idx == group_items[item_idx][3]
                IN  IF NotABoundary(start_idx, segment_boundaries)
                    THEN /\ segment_boundaries' = Append(segment_boundaries, end_idx)
                         /\ current_group_count' = current_group_count + 1
                         /\ IF current_group_count + 1 >= num_segments - 1
                            THEN /\ group_idx' = group_idx + 1
                                 /\ pc' = "group_head"
                                 /\ UNCHANGED item_idx
                            ELSE /\ item_idx' = item_idx + 1
                                 /\ UNCHANGED <<pc, group_idx>>
                    ELSE /\ item_idx' = item_idx + 1
                         /\ UNCHANGED <<pc, group_idx, segment_boundaries,
                                        current_group_count>>
    /\ UNCHANGED <<argVars, fsVars, printed, open_handles, awVars, whitespace_groups,
                   sorted_groups, current_whitespace_group, outVars>>

\* lines 114-115
FinalBoundary ==
    /\ pc = "final"
    /\ segment_boundaries' =
          IF Last(segment_boundaries) # Len(all_line_positions)
          THEN Append(segment_boundaries, Len(all_line_positions))
          ELSE segment_boundaries
    /\ pc' = "open_doc"
    /\ UNCHANGED <<argVars, fsVars, printed, open_handles, awVars, whitespace_groups,
                   sorted_groups, group_idx, item_idx, current_group_count,
                   current_whitespace_group, outVars>>

\* line 118
OpenDoc ==
    /\ pc = "open_doc"
    /\ open_handles' = open_handles \cup {Doc}
    /\ pc' = "check"
    /\ UNCHANGED <<argVars, fsVars, printed, awVars, selVars, outVars>>

\* lines 121-123
Check ==
    /\ pc = "check"
    /\ IF Len(segment_boundaries) # num_segments + 1
       THEN /\ printed' = Append(printed,
                   <<"Unable to segment", Len(segment_boundaries) - 1, num_segments>>)
            /\ pc' = "done"
       ELSE /\ pc' = "seg_create"
            /\ UNCHANGED printed
    /\ i' = 0
    /\ UNCHANGED <<argVars, fsVars, open_handles, awVars, selVars, output_pdf>>

\* lines 126-128: the next segment's output document
SegCreate ==
    /\ pc = "seg_create"
    /\ i < num_segments
    /\ open_handles' = open_handles \cup {OutputPdf(i)}
    /\ output_pdf' = <<>>
    /\ pc' = "seg_fill"
    /\ UNCHANGED <<argVars, fsVars, printed, awVars, selVars, i>>

\* lines 131-150
SegFill ==
    /\ pc = "seg_fill"
    /\ output_pdf' = FillPages(all_line_positions, segment_boundaries[i + 1],
                               segment_boundaries[i + 2], 0, num_pages)
    /\ pc' = "seg_save"
    /\ UNCHANGED <<argVars, fsVars, printed, open_handles, awVars, selVars, i>>

\* lines 153-157
SegSave ==
    /\ pc = "seg_save"
    /\ IF HasContent(output_pdf)
       THEN LET output_path ==
                    PathJoin(output_dir, SegmentFileName(output_prefix, i + 1))
            IN  /\ files' = {f \in files : f.path # output_path}
                              \cup {[path |-> output_path, pdf |-> output_pdf]}
                /\ printed' = Append(printed, <<"Saved segment", i + 1, output_path>>)
                /\ open_handles' = open_handles \ {OutputPdf(i)}
       ELSE UNCHANGED <<files, printed, open_handles>>
    /\ i' = i + 1
    /\ pc' = "seg_create"
    /\ UNCHANGED <<argVars, dirs, made_dirs, awVars, selVars, output_pdf>>

\* lines 159-160
DocClose ==
    /\ pc = "seg_create"
    /\ i >= num_segments
    /\ open_handles' = open_handles \ {Doc}
    /\ printed' = Append(printed, <<"PDF segmentation completed", num_segments>>)
    /\ pc' = "done"
    /\ UNCHANGED <<argVars, fsVars, awVars, selVars, outVars>>

\* the interpreter may release a document no variable is bound to any more
Finalize ==
    /\ \E h \in open_handles \ Referenced : open_handles' = open_handles \ {h}
    /\ UNCHANGED <<pc, argVars, fsVars, printed, awVars, selVars, outVars>>

Body ==
    \/ MakeDirs \/ AwOpen \/ AwPage \/ AwClose \/ AwDiff
    \/ SortWhitespace \/ Group \/ GroupHead \/ GroupItem \/ FinalBoundary
    \/ OpenDoc \/ Check \/ SegCreate \/ SegFill \/ SegSave \/ DocClose
    \/ Finalize

Next == SegmentPdfCall \/ Body

Spec == Init /\ [][Next]_vars

NextCLI == Main \/ Body

SpecCLI == Init /\ [][NextCLI]_vars

\* --------------------------------------------------------------- notions
NumLines == Len(all_line_positions)

MismatchPrinted == \E k \in 1..Len(printed) : printed[k][1] = "Unable to segment"

AfterCheck == pc \in {"seg_create", "seg_fill", "seg_save", "done"}

\* the boundary-count check was passed
SuccessPath == AfterCheck /\ ~MismatchPrinted

Completed == pc = "done" /\ ~MismatchPrinted

MismatchReturn == pc = "done" /\ MismatchPrinted

\* the selection loop has its inputs
Selecting == pc \in {"group_head", "item", "final"}

Selected == Selecting \/ pc \in {"open_doc", "check"} \/ AfterCheck

InRange(x, k) == segment_boundaries[k] <= x /\ x < segment_boundaries[k + 1]

LinesIn(f) == {f.pdf[p][e].line : <<p, e>> \in
                  {<<p, e>> \in (1..NumLines) \X (1..NumLines) :
                      p \in DOMAIN f.pdf /\ e \in DOMAIN f.pdf[p]}}

SegmentOf(f) == f.path.name[2]

OutputHandles == {h \in open_handles : h[1] = "segment_pdf.output_pdf"}

Max(a, b) == IF a >= b THEN a ELSE b

RECURSIVE Flatten(_)
Flatten(groups) ==
    IF groups = <<>> THEN <<>> ELSE Head(groups)[2] \o Flatten(Tail(groups))

\* ------------------------------------------------------------------ claims

\* C1: on the success path the boundary list has num_segments + 1 entries,
\* starts at 0, ends at len(line_records) and is strictly increasing.
C1_BoundariesStrictlyIncreasing ==
    SuccessPath =>
        /\ Len(segment_boundaries) = num_segments + 1
        /\ segment_boundaries[1] = 0
        /\ Last(segment_boundaries) = NumLines
        /\ \A k \in 1..(Len(segment_boundaries) - 1) :
              segment_boundaries[k] < segment_boundaries[k + 1]

\* C2: after a boundary-count mismatch the message is the only effect of the
\* run: no file, no new directory, no document handle left open.
C2_MismatchLeavesNoTrace ==
    MismatchReturn =>
        /\ files = {}
        /\ made_dirs = {}
        /\ open_handles = {}
        /\ printed = << <<"Unable to segment", Len(segment_boundaries) - 1, num_segments>> >>

\* C3 as stated: more segments requested than there are distinct rounded gap
\* values always ends on the mismatch path with no file written.
C3_MoreSegmentsThanGroups ==
    (AfterCheck /\ num_segments > Cardinality(DOMAIN whitespace_groups)) =>
        (MismatchReturn /\ files = {})

\* C3 amended: more segments requested than there are whitespace entries (and
\* more than one) always ends on the mismatch path with no file written.
C3_MoreSegmentsThanEntries ==
    (AfterCheck /\ num_segments > Max(1, Len(whitespace_diff))) =>
        (MismatchReturn /\ files = {})

C3_Witness ==
    /\ MismatchReturn
    /\ Len(whitespace_diff) >= 2
    /\ num_segments > Len(whitespace_diff)
    /\ Len(segment_boundaries) >= 3
    /\ files = {}

\* C4: run from the command line, every file written lies in the directory
\* given as --output_dir, which exists, and is named segment_<k>.pdf with
\* 1 <= k <= --segments.
C4_CliWritesIntoOutputDir ==
    argv # <<>> =>
        \A f \in files :
            /\ f.path.dir = argv.output_dir
            /\ argv.output_dir \in dirs
            /\ \E k \in 1..argv.segments : f.path.name = <<"segment_", k, ".pdf">>

\* C5: on the success path the segments are ordered, pairwise disjoint index
\* ranges: boundaries[i] <= boundaries[i+1], a written segment holds exactly
\* the lines of its range, and no line is in two written segments.
C5_SegmentsDisjoint ==
    SuccessPath =>
        /\ \A k \in 1..num_segments : segment_boundaries[k] <= segment_boundaries[k + 1]
        /\ \A f \in files :
              LinesIn(f) = {x \in 0..(NumLines - 1) : InRange(x, SegmentOf(f))}
        /\ \A f, g \in files : f # g => LinesIn(f) \cap LinesIn(g) = {}

\* C6: at most one output document is open at any time, and no document
\* handle is open once segment_pdf has returned.
C6_HandlesClosed ==
    /\ Cardinality(OutputHandles) <= 1
    /\ pc = "done" => open_handles = {}

C8_OneEntryPerAdjacentPair ==
    pc = "sort" =>
        /\ Len(whitespace_diff) = (IF NumLines >= 1 THEN NumLines - 1 ELSE 0)
        /\ \A j \in 0..(Len(whitespace_diff) - 1) :
              LET d == all_line_positions[j + 2].top - all_line_positions[j + 1].bottom
              IN  whitespace_diff[j + 1] = <<IF d >= 0 THEN d ELSE 0 - d, j, j + 1>>

C8_Witness ==
    /\ pc = "sort"
    /\ NumLines >= 3
    /\ \E j \in 1..(NumLines - 1) :
          /\ all_line_positions[j].page_num # all_line_positions[j + 1].page_num
          /\ all_line_positions[j + 1].top < all_line_positions[j].bottom
          /\ whitespace_diff[j][1] > 0

\* the entries in the order the selection loop visits them
VisitOrder == Flatten(sorted_groups)

VisitOrderAscending ==
    Selected =>
        /\ Len(VisitOrder) = Len(whitespace_diff)
        /\ Elems(VisitOrder) = Elems(whitespace_diff)
        /\ \A g \in 1..Len(sorted_groups) :
              /\ sorted_groups[g][2] # <<>>
              /\ \A e \in Elems(sorted_groups[g][2]) :
                    RoundedDiff(e[1]) = sorted_groups[g][1]
              /\ g > 1 => sorted_groups[g - 1][1] < sorted_groups[g][1]
        /\ \A k \in 1..(Len(VisitOrder) - 1) :
              \/ VisitOrder[k][1] < VisitOrder[k + 1][1]
              \/ /\ VisitOrder[k][1] = VisitOrder[k + 1][1]
                 /\ VisitOrder[k][2] < VisitOrder[k + 1][2]

InteriorBounded ==
    Selecting =>
        /\ Len(segment_boundaries) = 1 + current_group_count
        /\ current_group_count <= num_segments - 1
        /\ \A k \in 2..Len(segment_boundaries) : segment_boundaries[k] # 1

\* a step of the loop that visits an entry
VisitStep ==
    /\ pc = "item"
    /\ item_idx <= Len(sorted_groups[group_idx][2])
    /\ (pc' # pc \/ item_idx' # item_idx)

GreedyStep ==
    VisitStep =>
        LET e == sorted_groups[group_idx][2][item_idx]
        IN  /\ current_group_count < num_segments - 1
            /\ segment_boundaries' =
                  IF \E k \in 1..Len(segment_boundaries) : segment_boundaries[k] = e[2]
                  THEN segment_boundaries
                  ELSE segment_boundaries \o <<e[3]>>
            /\ \/ pc' = "item" /\ group_idx' = group_idx /\ item_idx' = item_idx + 1
               \/ /\ pc' = "group_head" /\ group_idx' = group_idx + 1
                  /\ Len(segment_boundaries') = num_segments

\* C9: entries are visited in ascending order of rounded gap, then raw gap,
\* then index; a visited entry appends its next_index exactly when its
\* prev_index is not yet a boundary; the entry between lines 0 and 1 is never
\* selected; and no entry is visited once num_segments - 1 interior
\* boundaries are there.
C9_GreedyAscendingSelection ==
    [](VisitOrderAscending /\ InteriorBounded) /\ [][GreedyStep]_vars

C9_Witness ==
    /\ pc = "final"
    /\ num_segments = 3
    /\ Len(sorted_groups) >= 2
    /\ segment_boundaries = <<0, 3, 2>>

\* C10: after a successful run every line index lies in the range of some
\* segment and its text is on a page of some written file.
C10_NoLineLost ==
    Completed =>
        \A x \in 0..(NumLines - 1) :
            /\ \E k \in 1..num_segments : InRange(x, k)
            /\ \E f \in files : \E p \in DOMAIN f.pdf : \E e \in DOMAIN f.pdf[p] :
                  /\ f.pdf[p][e].line = x
                  /\ f.pdf[p][e].text = all_line_positions[x + 1].text
                  /\ f.pdf[p][e].at = <<10, all_line_positions[x + 1].top>>

C10_Witness ==
    /\ Completed
    /\ NumLines = 4
    /\ num_segments = 3
    /\ \E k \in 1..num_segments : segment_boundaries[k] > segment_boundaries[k + 1]
    /\ all_line_positions[1].page_num # all_line_positions[4].page_num

=============================================================================
